---- MODULE Spec2Model ----
(***************************************************************************)
(* Model of the response decoder of the admissions scraper                 *)
(* (src/src/1_scraper.py, parse_response).                                 *)
(*                                                                         *)
(* One call of parse_response is one behaviour: Navigate walks the nested  *)
(* response down to the schema, NextGroup is one turn of the loop over PH, *)
(* DecodeRow is one turn of the loop over DM0 (the whole loop body),       *)
(* LoopBack is the jump from the end of the body to the head of that loop, *)
(* and Return is the final "return records".  The structural part of the   *)
(* response is drawn in Init; the encoded rows are drawn row by row from   *)
(* Rows(response) as the loops reach them.                                 *)
(*                                                                         *)
(* Strings are ASCII transliterations of the payload's strings.            *)
(***************************************************************************)
EXTENDS Integers, Sequences, FiniteSets, TLC

VARIABLES
    response,           \* the response argument (structure, schema S, ValueDicts)
    school_name,        \* the school_name argument
    unread,             \* encoded rows of the response the loops have not reached yet
    pc,                 \* "start" | "groups" | "rows" | "decoded" | "done"
    exc,                \* exception caught by the except clause ("none" if none)
    records,            \* the list that is returned
    schema_map,         \* col_idx -> [name, dict, type]
    value_dicts,        \* dictionary name -> table
    round_idx,          \* 1-based index of the current row-group
    row_idx,            \* number of rows of the current group already visited
    previous_resolved,  \* repeat source
    dm0,                \* the encoded row of the current turn (NoRow between turns)
    resolved,           \* resolved row of the row decoded last in this group
    idx_pointer,        \* values consumed by the row decoded last
    logged,             \* what the logger was told about each row visited, in order
    call,               \* 1 in the first call of parse_response, 2 in a repeated call
    payload,            \* the rows the first call read, with their groups (kept for the repeat)
    first               \* what the first call returned and where it stood

vars == <<response, school_name, unread, pc, exc, records, schema_map, value_dicts,
          round_idx, row_idx, previous_resolved, dm0, resolved, idx_pointer, logged,
          call, payload, first>>

\* the variables of a repeated call
twice == <<call, payload, first>>

(* The other programs of the repository.  Each has its own specification
   below; the specifications of parse_response leave their variables alone. *)
VARIABLES
    \* build_query (src/src/1_scraper.py)
    query_pc,               \* "start" | "literals" | "where" | "done"
    query_school,           \* the school_name argument
    curriculums,            \* the curriculums argument (None, or a list of names)
    include_where,          \* the include_where argument
    curriculum_conditions,  \* the literals built from curriculums
    where_conditions,       \* the Where list of the query
    \* the main loop of the scraper (src/src/1_scraper.py)
    main_pc,                \* "clear" | "query" | "parse" | "fallback" | "wait" | "done"
    schools,                \* the list of schools
    idx,                    \* 1-based position in schools (0 before the loop)
    successful,
    failed,
    output_csv,             \* the output file: FileAbsent, or its rows
    main_response,          \* what the first query of the current school returned
    main_records,           \* what parse_response made of it
    events,                 \* the requests, returns of parse_response, writes and sleeps, in order
    \* calculate_acceptance_rate (src/src/2_parser.py)
    accepted,
    applications,
    rate,                   \* what the call returned (NotCalled before it)
    \* TransportChecker (src/src/3_enrichment.py)
    cache,                  \* self.cache
    today,                  \* the day of datetime.now(), counted from a Monday
    history,                \* the calls made on the checker so far, in order
    \* the main workflow of the enrichment (src/src/3_enrichment.py)
    enrich_pc,              \* "enrich" | "join" | "done"
    df,                     \* the input rows
    school_enrichments,
    enriched_records,
    enrich_calls            \* the school names enrich_record was called for, in order

queryVars ==
    <<query_pc, query_school, curriculums, include_where, curriculum_conditions,
      where_conditions>>
mainVars ==
    <<main_pc, schools, idx, successful, failed, output_csv, main_response,
      main_records, events>>
rateVars == <<accepted, applications, rate>>
transportVars == <<cache, today, history>>
enrichVars == <<enrich_pc, df, school_enrichments, enriched_records, enrich_calls>>
others == <<queryVars, mainVars, rateVars, transportVars, enrichVars>>

----------------------------------------------------------------------------
(* Bounds of the model *)

\* most encoded rows in one response (all groups together)
MaxRows == 2
\* most row-groups (PH entries) in one response
MaxGroups == 2

----------------------------------------------------------------------------
(* JSON values: None, integers, non-integer numbers (in tenths), strings *)

None == [t |-> "none", i |-> 0, s |-> ""]
IntV(n) == [t |-> "int", i |-> n, s |-> ""]
FloatV(tenths) == [t |-> "float", i |-> tenths, s |-> ""]
StrV(x) == [t |-> "str", i |-> 0, s |-> x]

\* isinstance(value, int)
IsInt(v) == v.t = "int"

\* Truthy testing only for None
TruthyNotNone(v) == v.t # "none"

\* Truthy with the test inverted
TruthyInverted(v) ==
    CASE v.t = "none" -> TRUE
      [] v.t = "int" -> v.i = 0
      [] v.t = "float" -> v.i = 0
      [] OTHER -> v.s = ""

\* Python truthiness of a JSON scalar ("not obor" is ~Truthy(obor))
Truthy(v) ==
    CASE v.t = "none" -> FALSE
      [] v.t = "int" -> v.i # 0
      [] v.t = "float" -> v.i # 0
      [] OTHER -> v.s # ""

\* Python dicts are functions; d.get(k) is DictGet(d, k)
EmptyDict == [k \in {} |-> None]
DictGet(d, k) == IF k \in DOMAIN d THEN d[k] ELSE None
DictSet(d, k, v) == [x \in (DOMAIN d) \cup {k} |-> IF x = k THEN v ELSE d[x]]

----------------------------------------------------------------------------
(* Payloads *)

\* a schema column {"N": n, "DN": dn, "T": t}; dn = "" stands for DN: None
Col(n, dn, t) == [N |-> n, DN |-> dn, T |-> t]

\* G0 and G1 both categorical
SchemaDict == << Col("G0", "D0", 1), Col("G1", "D1", 1) >>
\* G0 categorical, G1 (the curriculum name) without a dictionary reference
SchemaPlainName == << Col("G0", "D0", 1), Col("G1", "", 4) >>
\* the 15-column schema of the query: G0..G2 categorical, G3..G14 numeric
Schema15 ==
    << Col("G0", "D0", 1), Col("G1", "D1", 1), Col("G2", "D2", 1),
       Col("G3", "", 4), Col("G4", "", 4), Col("G5", "", 4), Col("G6", "", 4),
       Col("G7", "", 4), Col("G8", "", 4), Col("G9", "", 4), Col("G10", "", 4),
       Col("G11", "", 4), Col("G12", "", 4), Col("G13", "", 4), Col("G14", "", 4) >>

\* the 15 columns with the short names of the first two exchanged: the
\* curriculum name (G1) comes first, the curriculum code (G0) second
SchemaRenamed ==
    << Col("G1", "D1", 1), Col("G0", "D0", 1) >> \o SubSeq(Schema15, 3, Len(Schema15))

\* ValueDicts sections
DictsFull ==
    [d \in {"D0", "D1", "D2"} |->
        CASE d = "D0" -> << StrV("2312B") >>
          [] d = "D1" -> << StrV("Elektrikar") >>
          [] OTHER -> << StrV("Silnoproud") >>]
DictsNoD1 == [d \in {"D0"} |-> << StrV("2312B") >>]
DictsNone == [d \in {} |-> << >>]
\* a curriculum-name table whose only entry is the empty string
DictsBlankName ==
    [d \in {"D0", "D1"} |-> IF d = "D0" THEN << StrV("2312B") >> ELSE << StrV("") >>]

\* an encoded row: C the values array, R the repeat mask, N the null mask (the
\* payload's key for it is a non-ASCII letter); hasC = FALSE when the C key is
\* absent.  The masks are the values after "or 0": an absent or null mask is 0.
Row(hasC, C, R, N) == [hasC |-> hasC, C |-> C, R |-> R, N |-> N]
NoRow == Row(FALSE, << >>, 0, 0)

\* raw cell values of the small payloads: indices below, inside and above a
\* one-entry table, and a non-integer (1.5)
RawVals == { IntV(-2), IntV(-1), IntV(0), IntV(1), FloatV(15) }

RECURSIVE Pow2(_)
Pow2(n) == IF n = 0 THEN 1 ELSE 2 * Pow2(n - 1)

SeqsUpTo(S, n) == UNION { [1..k -> S] : k \in 0..n }

\* every row of a schema of width w: any mask over the w columns, any C of
\* length <= w (the declared invariant of the encoding), or no C at all
RowsOfWidth(w) ==
    { Row(TRUE, C, R, N) : C \in SeqsUpTo(RawVals, w),
                           R \in 0..(Pow2(w) - 1), N \in 0..(Pow2(w) - 1) }
    \cup { NoRow }

\* the row of the example scenario and of test_parse_response_with_valid_data
ExampleRow ==
    Row(TRUE,
        << IntV(0), IntV(0), IntV(0), IntV(50), IntV(100), IntV(40), IntV(75),
           IntV(85), IntV(0), IntV(30), IntV(50), IntV(25), IntV(70), IntV(80) >>,
        0, 0)

\* rows of the 15-column payloads other than the example: every column with a
\* value (negative, zero and non-integer numbers among them); null bits on
\* G4, G8 and G14 and a values array too short for the rest; repeat bits on
\* G0, G1, G2 and G5
WideRowFull ==
    Row(TRUE,
        << IntV(0), IntV(0), IntV(0), IntV(1), IntV(30), FloatV(125), IntV(-1),
           IntV(0), FloatV(15), IntV(1), IntV(20), IntV(20), IntV(7), FloatV(5),
           IntV(9) >>,
        0, 0)
WideRowNulls ==
    Row(TRUE, << IntV(0), IntV(0), IntV(0), IntV(1), IntV(12) >>,
        0, Pow2(4) + Pow2(8) + Pow2(14))
WideRowRepeat == Row(TRUE, << IntV(8) >>, Pow2(0) + Pow2(1) + Pow2(2) + Pow2(5), 0)
WideRows == { WideRowFull, WideRowNulls, WideRowRepeat }

\* The response down to DS[0]: each section is "absent", "empty" or "ok".
\*   results  response["results"]          DS   result.data.dsr.DS
\*   PH       DS[0]["PH"]                  DM0  PH[0]["DM0"]
\*   S        PH[0]["DM0"][0]["S"]         VD   DS[0]["ValueDicts"]
\* An absent "result", "data" or "dsr" reads as {} and so as DS "absent".
Resp(results, DS, PH, DM0, S, VD, schema, dicts) ==
    [results |-> results, DS |-> DS, PH |-> PH, DM0 |-> DM0, S |-> S, VD |-> VD,
     schema |-> schema, dicts |-> dicts]

\* responses with every structural section in place
WellFormed ==
    { Resp("ok", "ok", "ok", "ok", "ok", "ok", SchemaDict, d) :
        d \in {DictsFull, DictsNoD1, DictsBlankName} }
    \cup { Resp("ok", "ok", "ok", "ok", "ok", v, s, DictsNone) :
        s \in {SchemaDict, SchemaPlainName}, v \in {"absent", "empty"} }
    \cup { Resp("ok", "ok", "ok", "ok", "ok", "ok", s, DictsFull) :
        s \in {Schema15, SchemaRenamed} }

\* responses whose k-th section on the path results, DS, PH, DM0, S is absent
\* or empty; the sections above it are in place, those below it do not exist
Broken(k, v) ==
    LET sec(j) == IF j < k THEN "ok" ELSE IF j = k THEN v ELSE "absent"
    IN  Resp(sec(1), sec(2), sec(3), sec(4), sec(5), "ok", SchemaDict, DictsFull)

Malformed == { Broken(k, v) : k \in 1..5, v \in {"absent", "empty"} }

Responses == WellFormed \cup Malformed

\* the encoded rows a response may carry
SmallRows == RowsOfWidth(Len(SchemaDict))
Rows(r) ==
    IF r.schema = Schema15 THEN {ExampleRow}
    ELSE IF r.schema = SchemaRenamed THEN WideRows
    ELSE SmallRows

SchoolNames == {"Test School", "Druha skola"}
\* the two-column payloads are decoded for one school, the 15-column ones
\* for either
SchoolsOf(r) == IF Len(r.schema) = Len(Schema15) THEN SchoolNames ELSE {"Test School"}

\* the keys of a record, in the order of the CSV columns
CSV_HEADERS ==
    << "school_name", "curriculum_name", "curriculum_code", "curriculum_detail",
       "round1_capacity", "round1_applications", "round1_accepted",
       "round1_min_score", "round1_avg_score",
       "round2_capacity", "round2_applications", "round2_accepted",
       "round2_min_score", "round2_avg_score" >>

----------------------------------------------------------------------------
(* The decoder *)

\* ((mask >> col_idx) & 1) == 1
BitSet(mask, col_idx) == (mask \div Pow2(col_idx)) % 2 = 1

\* the outcome of an expression: a value, or an exception raised
Ok(v) == [raised |-> FALSE, val |-> v]
Raise == [raised |-> TRUE, val |-> None]

\* table[value] with Python's list indexing: a negative index counts from the
\* end, an index outside -len..len-1 raises IndexError
PyIndex(table, i) ==
    IF i >= 0 /\ i < Len(table) THEN Ok(table[i + 1])
    ELSE IF i < 0 /\ i >= -Len(table) THEN Ok(table[Len(table) + i + 1])
    ELSE Raise

\* LookupDict without the upper bounds check
LookupDictNoBounds(dict_name, value, vd) ==
    IF dict_name \in DOMAIN vd /\ IsInt(value)
    THEN PyIndex(vd[dict_name], value.i)
    ELSE Ok(None)

\* LookupDict falling back to the raw value when the table is missing
LookupDictEcho(dict_name, value, vd) ==
    IF dict_name \in DOMAIN vd /\ IsInt(value)
    THEN IF value.i < Len(vd[dict_name])
         THEN PyIndex(vd[dict_name], value.i)
         ELSE Ok(None)
    ELSE IF dict_name \in DOMAIN vd THEN Ok(None) ELSE Ok(value)

\* the categorical branch
LookupDict(dict_name, value, vd) ==
    IF dict_name \in DOMAIN vd /\ IsInt(value)
    THEN IF value.i < Len(vd[dict_name])
         THEN PyIndex(vd[dict_name], value.i)
         ELSE Ok(None)
    ELSE Ok(None)

\* CellKind testing the repeat bit before the null bit
CellKindRepeatFirst(null_mask, repeat_mask, col_idx) ==
    IF BitSet(repeat_mask, col_idx) THEN "repeat"
    ELSE IF BitSet(null_mask, col_idx) THEN "null"
    ELSE "consume"

\* CellKind ignoring the repeat bit
CellKindNoRepeat(null_mask, repeat_mask, col_idx) ==
    IF BitSet(null_mask, col_idx) THEN "null" ELSE "consume"

\* which of the three ways a column is resolved
CellKind(null_mask, repeat_mask, col_idx) ==
    IF BitSet(null_mask, col_idx) THEN "null"
    ELSE IF BitSet(repeat_mask, col_idx) THEN "repeat"
    ELSE "consume"

\* one turn of the loop over schema_map; acc carries resolved, idx_pointer and
\* whether an exception has left the loop
ResolveCell(acc, col_idx, smap, row, previous, vd) ==
    LET col_name == smap[col_idx].name
        dict_name == smap[col_idx].dict
        kind == CellKind(row.N, row.R, col_idx)
        put(v) == [acc EXCEPT !.resolved = DictSet(acc.resolved, col_name, v)]
    IN  IF acc.raised THEN acc
        ELSE IF kind = "null" THEN put(None)
        ELSE IF kind = "repeat" THEN put(DictGet(previous, col_name))
        ELSE IF acc.idx_pointer >= Len(row.C) THEN put(None)
        ELSE LET value == row.C[acc.idx_pointer + 1]
                 looked == IF dict_name # "" THEN LookupDict(dict_name, value, vd)
                           ELSE Ok(value)
             IN  IF looked.raised
                 THEN [acc EXCEPT !.idx_pointer = acc.idx_pointer + 1, !.raised = TRUE]
                 ELSE [resolved |-> DictSet(acc.resolved, col_name, looked.val),
                       idx_pointer |-> acc.idx_pointer + 1,
                       raised |-> FALSE]

RECURSIVE ResolveFrom(_, _, _, _, _, _)
ResolveFrom(acc, col_idx, smap, row, previous, vd) ==
    IF col_idx \notin DOMAIN smap THEN acc
    ELSE ResolveFrom(ResolveCell(acc, col_idx, smap, row, previous, vd),
                     col_idx + 1, smap, row, previous, vd)

\* ResolveRow starting at the second value
ResolveRowFromOne(smap, row, previous, vd) ==
    ResolveFrom([resolved |-> EmptyDict, idx_pointer |-> 1, raised |-> FALSE],
                0, smap, row, previous, vd)

\* the loop over the schema columns, in ascending position
ResolveRow(smap, row, previous, vd) ==
    ResolveFrom([resolved |-> EmptyDict, idx_pointer |-> 0, raised |-> FALSE],
                0, smap, row, previous, vd)

\* BuildSchemaMap numbering the columns from 1
BuildSchemaMapFromOne(dm0_schema) ==
    [col_idx \in 1..Len(dm0_schema) |->
        [name |-> dm0_schema[col_idx].N,
         dict |-> dm0_schema[col_idx].DN,
         type |-> dm0_schema[col_idx].T]]

\* schema_map
BuildSchemaMap(dm0_schema) ==
    [col_idx \in 0..(Len(dm0_schema) - 1) |->
        [name |-> dm0_schema[col_idx + 1].N,
         dict |-> dm0_schema[col_idx + 1].DN,
         type |-> dm0_schema[col_idx + 1].T]]

\* MakeRecord reading the round fields one column early (G3..G7, G9..G13)
MakeRecordShifted(res, school) ==
    [school_name |-> StrV(school),
     curriculum_name |-> DictGet(res, "G1"),
     curriculum_code |-> DictGet(res, "G0"),
     curriculum_detail |-> DictGet(res, "G2"),
     round1_capacity |-> DictGet(res, "G3"),
     round1_applications |-> DictGet(res, "G4"),
     round1_accepted |-> DictGet(res, "G5"),
     round1_min_score |-> DictGet(res, "G6"),
     round1_avg_score |-> DictGet(res, "G7"),
     round2_capacity |-> DictGet(res, "G9"),
     round2_applications |-> DictGet(res, "G10"),
     round2_accepted |-> DictGet(res, "G11"),
     round2_min_score |-> DictGet(res, "G12"),
     round2_avg_score |-> DictGet(res, "G13")]

\* MakeRecord appending the resolved row itself
MakeRecordResolved(res, school) == res

\* MakeRecord reading a missing number as 0
MakeRecordCoerced(res, school) ==
    LET num(k) == IF DictGet(res, k) = None THEN IntV(0) ELSE DictGet(res, k)
    IN  [school_name |-> StrV(school),
         curriculum_name |-> DictGet(res, "G1"),
         curriculum_code |-> DictGet(res, "G0"),
         curriculum_detail |-> DictGet(res, "G2"),
         round1_capacity |-> num("G4"),
         round1_applications |-> num("G5"),
         round1_accepted |-> num("G6"),
         round1_min_score |-> num("G7"),
         round1_avg_score |-> num("G8"),
         round2_capacity |-> num("G10"),
         round2_applications |-> num("G11"),
         round2_accepted |-> num("G12"),
         round2_min_score |-> num("G13"),
         round2_avg_score |-> num("G14")]

\* the record built from a resolved row
MakeRecord(res, school) ==
    [school_name |-> StrV(school),
     curriculum_name |-> DictGet(res, "G1"),
     curriculum_code |-> DictGet(res, "G0"),
     curriculum_detail |-> DictGet(res, "G2"),
     round1_capacity |-> DictGet(res, "G4"),
     round1_applications |-> DictGet(res, "G5"),
     round1_accepted |-> DictGet(res, "G6"),
     round1_min_score |-> DictGet(res, "G7"),
     round1_avg_score |-> DictGet(res, "G8"),
     round2_capacity |-> DictGet(res, "G10"),
     round2_applications |-> DictGet(res, "G11"),
     round2_accepted |-> DictGet(res, "G12"),
     round2_min_score |-> DictGet(res, "G13"),
     round2_avg_score |-> DictGet(res, "G14")]

\* Obor reading the curriculum code
OborFromCode(res) == DictGet(res, "G0")

\* the required field of a resolved row
Obor(res) == DictGet(res, "G1")

\* GroupStart carrying the tracker over from the group before
GroupStartKeep(previous) == previous

\* previous_resolved at the start of a row-group
GroupStart(previous) == EmptyDict

\* previous_resolved after a row that did not raise
NextPrevious(previous, res) == IF Truthy(Obor(res)) THEN res ELSE previous

----------------------------------------------------------------------------
(* parse_response as a state machine *)

\* what a call returned (records, the exception caught) and where its loops
\* stood (groups entered, rows not reached)
Result(recs, e, groups, rest) ==
    [records |-> recs, exc |-> e, groups |-> groups, unread |-> rest]
NoResult == Result(<< >>, "none", 0, 0)

\* the output file does not exist
FileAbsent == [exists |-> FALSE, lines |-> << >>]
\* calculate_acceptance_rate has not been called
NotCalled == [t |-> "pending", i |-> 0, s |-> ""]

\* the other programs before they run
QueryIdle ==
    /\ query_pc = "start"
    /\ query_school = ""
    /\ curriculums = << >>
    /\ include_where = TRUE
    /\ curriculum_conditions = << >>
    /\ where_conditions = << >>
MainIdle ==
    /\ main_pc = "clear"
    /\ schools = << >>
    /\ idx = 0
    /\ successful = 0
    /\ failed = 0
    /\ output_csv = FileAbsent
    /\ main_response = "none"
    /\ main_records = << >>
    /\ events = << >>
RateIdle ==
    /\ accepted = None
    /\ applications = None
    /\ rate = NotCalled
TransportIdle ==
    /\ cache = EmptyDict
    /\ today = 0
    /\ history = << >>
EnrichIdle ==
    /\ enrich_pc = "enrich"
    /\ df = << >>
    /\ school_enrichments = EmptyDict
    /\ enriched_records = << >>
    /\ enrich_calls = << >>
OthersIdle == QueryIdle /\ MainIdle /\ RateIdle /\ TransportIdle /\ EnrichIdle

Init ==
    /\ OthersIdle
    /\ response \in Responses
    /\ school_name \in SchoolsOf(response)
    /\ unread \in 0..MaxRows
    /\ (response.DM0 = "ok") => unread >= 1
    /\ (response.schema = Schema15) => unread = 1
    /\ (response.PH # "ok") => unread = 0
    /\ pc = "start"
    /\ exc = "none"
    /\ records = << >>
    /\ schema_map = << >>
    /\ value_dicts = DictsNone
    /\ round_idx = 0
    /\ row_idx = 0
    /\ previous_resolved = EmptyDict
    /\ dm0 = NoRow
    /\ resolved = EmptyDict
    /\ idx_pointer = 0
    /\ logged = << >>
    /\ call = 1
    /\ payload = << >>
    /\ first = NoResult

\* Dm0Schema without the checks that PH, DM0 and S are there
Dm0SchemaUnchecked(r) == r.schema

\* dm0_schema: None reads as the empty sequence (both are falsy)
Dm0Schema(r) ==
    IF r.PH = "ok" /\ r.DM0 = "ok" /\ r.S = "ok" THEN r.schema ELSE << >>

\* the walk from the response down to the schema map
Navigate ==
    /\ pc = "start"
    /\ IF response.results = "absent"
       THEN /\ pc' = "done"
            /\ UNCHANGED <<exc, value_dicts, schema_map>>
       ELSE IF response.results = "empty"
       THEN /\ pc' = "done"
            /\ exc' = "IndexError"
            /\ UNCHANGED <<value_dicts, schema_map>>
       ELSE IF response.DS # "ok"
       THEN /\ pc' = "done"
            /\ UNCHANGED <<exc, value_dicts, schema_map>>
       ELSE /\ value_dicts' = (IF response.VD = "ok" THEN response.dicts ELSE DictsNone)
            /\ IF Dm0Schema(response) = << >>
               THEN /\ pc' = "done"
                    /\ UNCHANGED schema_map
               ELSE /\ pc' = "groups"
                    /\ schema_map' = BuildSchemaMap(Dm0Schema(response))
            /\ UNCHANGED exc
    /\ UNCHANGED <<response, school_name, unread, records, round_idx, row_idx,
                   previous_resolved, dm0, resolved, idx_pointer, logged>>

\* the rows of the current group are exhausted (the first group has a row: the
\* schema was read from it)
GroupDone == pc = "groups" \/ (pc = "rows" /\ (round_idx > 1 \/ row_idx > 0))

\* the loop over ph_list moves to the next row-group; resolved is emptied with
\* it: the code leaves the old dict in place, but assigns a fresh one before
\* reading it, so resolved here always belongs to the current group
NextGroup ==
    /\ GroupDone
    /\ round_idx < MaxGroups
    /\ pc' = "rows"
    /\ round_idx' = round_idx + 1
    /\ row_idx' = 0
    /\ previous_resolved' = GroupStart(previous_resolved)
    /\ resolved' = EmptyDict
    /\ UNCHANGED <<response, school_name, unread, exc, records, schema_map,
                   value_dicts, dm0, idx_pointer, logged>>

\* HasValues taking an empty values array for a missing one
HasValuesNonEmpty(row) == row.hasC /\ row.C # << >>

\* "C" in dm0
HasValues(row) == row.hasC

\* AddRecord putting the new record first
AddRecordFirst(recs, record) == << record >> \o recs

\* records.append(record)
AddRecord(recs, record) == Append(recs, record)

\* one debug line about a row: the group, the row's index in the group
\* (0-based, as enumerate gives it) and what became of the row:
\* "no_c" (skipped, no values array), "no_obor" (skipped, no curriculum
\* name) or "record" (a record was created)
LogLine(group, row, what) == [group |-> group, row |-> row, what |-> what]

\* one turn of the loop over dm0_list: the whole loop body for one row
DecodeRow(row) ==
    /\ pc = "rows"
    /\ unread > 0
    /\ unread' = unread - 1
    /\ row_idx' = row_idx + 1
    /\ dm0' = row
    /\ IF ~HasValues(row)
       THEN /\ pc' = "decoded"
            /\ logged' = Append(logged, LogLine(round_idx, row_idx, "no_c"))
            /\ UNCHANGED <<exc, records, previous_resolved, resolved, idx_pointer>>
       ELSE LET r == ResolveRow(schema_map, row, previous_resolved, value_dicts)
                kept == Truthy(Obor(r.resolved))
            IN  /\ resolved' = r.resolved
                /\ idx_pointer' = r.idx_pointer
                /\ IF r.raised
                   THEN /\ pc' = "done"
                        /\ exc' = "IndexError"
                        /\ UNCHANGED <<records, previous_resolved, logged>>
                   ELSE /\ records' = (IF kept
                                       THEN AddRecord(records, MakeRecord(r.resolved, school_name))
                                       ELSE records)
                        /\ logged' = Append(logged,
                                LogLine(round_idx, row_idx, IF kept THEN "record" ELSE "no_obor"))
                        /\ previous_resolved' = NextPrevious(previous_resolved, r.resolved)
                        /\ pc' = "decoded"
                        /\ UNCHANGED exc
    /\ UNCHANGED <<response, school_name, schema_map, value_dicts, round_idx>>

\* from the end of the loop body (or a continue) to the head of the loop over
\* dm0_list; dm0 and idx_pointer are rebound by the next turn before they are
\* read again
LoopBack ==
    /\ pc = "decoded"
    /\ pc' = "rows"
    /\ dm0' = NoRow
    /\ idx_pointer' = 0
    /\ UNCHANGED <<response, school_name, unread, exc, records, schema_map, value_dicts,
                   round_idx, row_idx, previous_resolved, resolved, logged>>

\* both loops are exhausted: return records
Return ==
    /\ GroupDone
    /\ unread = 0
    /\ pc' = "done"
    /\ UNCHANGED <<response, school_name, unread, exc, records, schema_map, value_dicts,
                   round_idx, row_idx, previous_resolved, dm0, resolved, idx_pointer,
                   logged>>

\* one call of parse_response, rows drawn as the loops reach them
Next ==
    \/ Navigate /\ UNCHANGED <<twice, others>>
    \/ NextGroup /\ UNCHANGED <<twice, others>>
    \/ \E row \in Rows(response) : DecodeRow(row) /\ UNCHANGED <<twice, others>>
    \/ LoopBack /\ UNCHANGED <<twice, others>>
    \/ Return /\ UNCHANGED <<twice, others>>

Spec == Init /\ [][Next]_vars

----------------------------------------------------------------------------
(* parse_response called twice on the same response *)

\* rows of the payloads that are decoded twice: no values array; a full row;
\* a row whose name is null; a repeated code; an empty values array with both
\* columns repeated; an index above the table; a negative index that wraps;
\* a negative index that raises
SampleRows ==
    { NoRow,
      Row(TRUE, << IntV(0), IntV(0) >>, 0, 0),
      Row(TRUE, << IntV(0) >>, 0, 2),
      Row(TRUE, << IntV(0) >>, 1, 0),
      Row(TRUE, << >>, 3, 0),
      Row(TRUE, << IntV(1), IntV(0) >>, 0, 0),
      Row(TRUE, << IntV(0), IntV(-1) >>, 0, 0),
      Row(TRUE, << IntV(-2), IntV(0) >>, 0, 0) }
ReplayRows(r) ==
    IF r.schema = Schema15 THEN {ExampleRow}
    ELSE IF r.schema = SchemaRenamed THEN WideRows
    ELSE SampleRows

\* the records list of a call that inherits the list of the call before
KeptRecords(old) == old

\* records = [] at the entry of a call
NewRecords(old) == << >>

\* rows the current call has read
RowsRead == (IF call = 1 THEN Len(payload) ELSE Len(payload) + first.unread) - unread

\* in a repeated call the response is the same: the row at the head of the
\* row loop is the row the first call read there
SameRow(row) ==
    IF call = 1 THEN TRUE
    ELSE /\ RowsRead < Len(payload)
         /\ payload[RowsRead + 1] = [group |-> round_idx, row |-> row]

\* ... and its groups end where they ended in the first call
SameGroups ==
    IF call = 1 THEN TRUE
    ELSE IF RowsRead < Len(payload) THEN payload[RowsRead + 1].group > round_idx
    ELSE round_idx < first.groups

ReadRow(row) ==
    /\ SameRow(row)
    /\ DecodeRow(row)
    /\ payload' = (IF call = 1
                   THEN Append(payload, [group |-> round_idx, row |-> row])
                   ELSE payload)
    /\ UNCHANGED <<call, first>>

\* the caller calls parse_response again with the same arguments: a new
\* frame, in which records is bound to a new list
CallAgain ==
    /\ pc = "done"
    /\ call = 1
    /\ call' = 2
    /\ first' = Result(records, exc, round_idx, unread)
    /\ unread' = Len(payload) + unread
    /\ pc' = "start"
    /\ exc' = "none"
    /\ records' = NewRecords(records)
    /\ schema_map' = << >>
    /\ value_dicts' = DictsNone
    /\ round_idx' = 0
    /\ row_idx' = 0
    /\ previous_resolved' = EmptyDict
    /\ dm0' = NoRow
    /\ resolved' = EmptyDict
    /\ idx_pointer' = 0
    /\ logged' = << >>
    /\ UNCHANGED <<response, school_name, payload>>

NextTwice ==
    \/ Navigate /\ UNCHANGED <<twice, others>>
    \/ SameGroups /\ NextGroup /\ UNCHANGED <<twice, others>>
    \/ \E row \in ReplayRows(response) : ReadRow(row) /\ UNCHANGED others
    \/ LoopBack /\ UNCHANGED <<twice, others>>
    \/ (call = 2 => round_idx = first.groups) /\ Return /\ UNCHANGED <<twice, others>>
    \/ CallAgain /\ UNCHANGED others

SpecTwice == Init /\ [][NextTwice]_vars

----------------------------------------------------------------------------
(* build_query *)

\* most curriculum names in one call
MaxCurriculums == 2

CurriculumNames == {"Elektrikar", "Gymnazium"}

\* the curriculums argument: None (the default), or a list of names
Curriculums(none, list) == [none |-> none, list |-> list]
CurriculumArgs ==
    { Curriculums(TRUE, << >>) }
    \cup { Curriculums(FALSE, l) : l \in SeqsUpTo(CurriculumNames, MaxCurriculums) }

\* {"Literal": {"Value": f"'{x}'"}}
Literal(x) == "'" \o x \o "'"

\* a condition {"Condition": {"In": {"Expressions": [column], "Values": values}}}
Condition(source, property, values) ==
    [source |-> source, property |-> property, values |-> values]

\* WhereConditions adding the curriculum filter whether or not include_where
WhereConditionsFilterAlways(school, conditions, include) ==
    (IF include
     THEN << Condition("111", "a03Name", << << Literal(school) >> >>) >>
     ELSE << >>)
    \o (IF conditions # << >>
        THEN << Condition("d", "obory", conditions) >>
        ELSE << >>)

\* where_conditions
WhereConditions(school, conditions, include) ==
    IF include
    THEN << Condition("111", "a03Name", << << Literal(school) >> >>) >>
         \o (IF conditions # << >>
             THEN << Condition("d", "obory", conditions) >>
             ELSE << >>)
    ELSE << >>

QueryInit ==
    /\ query_pc = "start"
    /\ query_school \in SchoolNames
    /\ curriculums \in CurriculumArgs
    /\ include_where \in BOOLEAN
    /\ curriculum_conditions = << >>
    /\ where_conditions = << >>

\* the default for curriculums and the loop that builds the literals
BuildLiterals ==
    /\ query_pc = "start"
    /\ query_pc' = "literals"
    /\ curriculums' = Curriculums(FALSE, curriculums.list)
    /\ curriculum_conditions' =
          [i \in 1..Len(curriculums.list) |-> << Literal(curriculums.list[i]) >>]
    /\ UNCHANGED <<query_school, include_where, where_conditions>>

BuildWhere ==
    /\ query_pc = "literals"
    /\ query_pc' = "where"
    /\ where_conditions' =
          WhereConditions(query_school, curriculum_conditions, include_where)
    /\ UNCHANGED <<query_school, curriculums, include_where, curriculum_conditions>>

\* the query is assembled around where_conditions and returned
ReturnQuery ==
    /\ query_pc = "where"
    /\ query_pc' = "done"
    /\ UNCHANGED <<query_school, curriculums, include_where, curriculum_conditions,
                   where_conditions>>

\* the parse_response variables when another program runs
DecoderIdle ==
    /\ response = Broken(1, "absent")
    /\ school_name = "Test School"
    /\ unread = 0
    /\ pc = "start"
    /\ exc = "none"
    /\ records = << >>
    /\ schema_map = << >>
    /\ value_dicts = DictsNone
    /\ round_idx = 0
    /\ row_idx = 0
    /\ previous_resolved = EmptyDict
    /\ dm0 = NoRow
    /\ resolved = EmptyDict
    /\ idx_pointer = 0
    /\ logged = << >>
    /\ call = 1
    /\ payload = << >>
    /\ first = NoResult

InitQuery == DecoderIdle /\ QueryInit /\ MainIdle /\ RateIdle /\ TransportIdle /\ EnrichIdle

notQuery == <<vars, mainVars, rateVars, transportVars, enrichVars>>

NextQuery ==
    \/ BuildLiterals /\ UNCHANGED notQuery
    \/ BuildWhere /\ UNCHANGED notQuery
    \/ ReturnQuery /\ UNCHANGED notQuery

SpecQuery == InitQuery /\ [][NextQuery]_<<vars, others>>

----------------------------------------------------------------------------
(* calculate_acceptance_rate *)

\* largest count of applications or of accepted pupils
MaxCount == 6

\* a count as parse_number returns it: None or a number
Counts == { None } \cup { IntV(n) : n \in 0..MaxCount }

\* a rate in hundredths of a percent, and the exception of a division by zero
Rate(hundredths) == [t |-> "rate", i |-> hundredths, s |-> ""]
ZeroDivisionError == [t |-> "raise", i |-> 0, s |-> "ZeroDivisionError"]

\* n / d rounded to the nearest integer, a tie going to the even one (round)
RoundDiv(n, d) ==
    LET q == n \div d
        r == n % d
    IN  IF 2 * r < d THEN q
        ELSE IF 2 * r > d THEN q + 1
        ELSE IF q % 2 = 0 THEN q ELSE q + 1

\* round((accepted / applications) * 100, 2)
Percentage(a, b) ==
    IF b.i = 0 THEN ZeroDivisionError ELSE Rate(RoundDiv(a.i * 10000, b.i))

\* calculate_acceptance_rate without the test for zero applications
calculate_acceptance_rate_no_zero_test(a, b) ==
    IF a = None \/ b = None THEN None ELSE Percentage(a, b)

calculate_acceptance_rate(a, b) ==
    IF a = None \/ b = None \/ b.i = 0 THEN None ELSE Percentage(a, b)

RateInit ==
    /\ accepted \in Counts
    /\ applications \in Counts
    /\ rate = NotCalled

CalculateRate ==
    /\ rate = NotCalled
    /\ rate' = calculate_acceptance_rate(accepted, applications)
    /\ UNCHANGED <<accepted, applications>>

InitRate == DecoderIdle /\ QueryIdle /\ MainIdle /\ RateInit /\ TransportIdle /\ EnrichIdle

NextRate == CalculateRate /\ UNCHANGED <<vars, queryVars, mainVars, transportVars, enrichVars>>

SpecRate == InitRate /\ [][NextRate]_<<vars, others>>

----------------------------------------------------------------------------
(* TransportChecker *)

\* most calls on one checker
MaxCalls == 2

BoolV(b) == [t |-> "bool", i |-> IF b THEN 1 ELSE 0, s |-> ""]

\* a day is a number, day 0 a Monday; datetime.now() is one of a week's days
Weekdays == 0..6
weekday(day) == day % 7

\* the destination argument: None, the empty string or an address
Destinations == { None, StrV(""), StrV("Chodovicka 2250") }

\* an IDOS URL, of which the date and the destination are kept
Url(date, destination) == [t |-> "url", i |-> date, s |-> destination]

\* days_until_monday without the step from 0 to 7
days_until_monday_same_day(day) == (7 - weekday(day)) % 7

days_until_monday(day) ==
    LET days == (7 - weekday(day)) % 7
    IN  IF days = 0 THEN 7 ELSE days

\* build_idos_url(destination) called on the given day
build_idos_url(destination, day) ==
    IF ~Truthy(destination)
    THEN None
    ELSE Url(day + days_until_monday(day), destination.s)

\* what the request and the page bring: an exception of requests, any other
\* exception, or a page with the journey's minutes and transfers (either absent)
Page(minutes, transfers) == [kind |-> "page", minutes |-> minutes, transfers |-> transfers]
RequestException == [kind |-> "RequestException", minutes |-> None, transfers |-> None]
OtherException == [kind |-> "Exception", minutes |-> None, transfers |-> None]
HttpOutcomes ==
    { RequestException, OtherException,
      Page(None, None), Page(IntV(45), None), Page(IntV(45), IntV(1)) }

\* f"{school_name}_{destination}"
CacheKey(school, destination) ==
    school \o "_" \o (IF destination = None THEN "None" ELSE destination.s)

TransportResult(available, minutes, transfers, info, url, address, source) ==
    [available |-> available, duration_minutes |-> minutes, transfers |-> transfers,
     route_info |-> info, idos_url |-> url, constructed_address |-> address,
     data_source |-> source]

\* route_summary
RouteInfo(minutes, transfers) ==
    IF minutes = None THEN StrV("Could not extract timing info")
    ELSE IF transfers = None THEN StrV(ToString(minutes.i) \o " min")
    ELSE StrV(ToString(minutes.i) \o " min, " \o ToString(transfers.i)
              \o (IF transfers.i # 1 THEN " transfers" ELSE " transfer"))

\* the outcome of a call: the result returned, the cache afterwards, and
\* whether requests.get was called
Outcome(result, after, requested) ==
    [result |-> result, cache |-> after, requested |-> requested]

\* Branch with one handler, `except Exception`, for every exception
BranchOneHandler(idos_url, http) ==
    IF idos_url = None \/ http.kind = "RequestException" THEN "Exception" ELSE http.kind

\* the branch a call takes: requests.get(None) raises MissingSchema, a
\* RequestException
Branch(idos_url, http) == IF idos_url = None THEN "RequestException" ELSE http.kind

\* the branches that end with self.cache[cache_key] = result
Stores(kind) == kind \in {"page", "RequestException"}

\* the result the try statement builds
Lookup(school, destination, day, http) ==
    LET cleaned_destination == IF Truthy(destination) THEN destination ELSE StrV(school)
        idos_url == build_idos_url(cleaned_destination, day)
        kind == Branch(idos_url, http)
    IN  CASE kind = "page" ->
               TransportResult(BoolV(http.minutes # None), http.minutes, http.transfers,
                               RouteInfo(http.minutes, http.transfers), idos_url,
                               cleaned_destination, "idos_mafra_conn")
          [] kind = "RequestException" ->
               TransportResult(None, None, None, StrV("Lookup failed"), idos_url,
                               cleaned_destination, "lookup_failed")
          [] OTHER ->
               TransportResult(None, None, None, None, None,
                               cleaned_destination, "error")

\* check_transport(school_name, destination) on a checker whose cache is store
check_transport(store, school, destination, day, http) ==
    LET key == CacheKey(school, destination)
        cleaned_destination == IF Truthy(destination) THEN destination ELSE StrV(school)
        kind == Branch(build_idos_url(cleaned_destination, day), http)
        result == Lookup(school, destination, day, http)
    IN  IF key \in DOMAIN store
        THEN Outcome(store[key], store, FALSE)
        ELSE Outcome(result,
                     IF Stores(kind) THEN DictSet(store, key, result) ELSE store,
                     TRUE)

\* one call in the history of a checker
Called(op, school, destination, http, result, requested) ==
    [op |-> op, school |-> school, destination |-> destination, http |-> http,
     result |-> result, requested |-> requested]

TransportInit ==
    /\ cache = EmptyDict
    /\ today \in Weekdays
    /\ history = << >>

\* a caller calls check_transport
CheckTransport ==
    /\ Len(history) < MaxCalls
    /\ \E school \in SchoolNames, destination \in Destinations, http \in HttpOutcomes :
          LET out == check_transport(cache, school, destination, today, http)
          IN  /\ cache' = out.cache
              /\ history' = Append(history,
                    Called("check_transport", school, destination,
                           IF out.requested THEN http ELSE Page(None, None),
                           out.result, out.requested))
    /\ UNCHANGED today

\* a caller calls build_idos_url
BuildIdosUrl ==
    /\ Len(history) < MaxCalls
    /\ \E destination \in Destinations :
          history' = Append(history,
              Called("build_idos_url", "", destination, Page(None, None),
                     build_idos_url(destination, today), FALSE))
    /\ UNCHANGED <<cache, today>>

InitTransport == DecoderIdle /\ QueryIdle /\ MainIdle /\ RateIdle /\ TransportInit /\ EnrichIdle

notTransport == <<vars, queryVars, mainVars, rateVars, enrichVars>>

NextTransport ==
    \/ CheckTransport /\ UNCHANGED notTransport
    \/ BuildIdosUrl /\ UNCHANGED notTransport

SpecTransport == InitTransport /\ [][NextTransport]_<<vars, others>>

----------------------------------------------------------------------------
(* The scraper's main loop *)

\* most schools in schools.json
MaxSchools == 2

\* str(value) as csv.writer writes a cell; None is written as the empty cell
CsvCell(v) ==
    CASE v.t = "none" -> ""
      [] v.t = "str" -> v.s
      [] v.t = "int" -> ToString(v.i)
      [] OTHER -> ToString(v.i \div 10) \o "." \o ToString(v.i % 10)

\* writer.writeheader() and writer.writerow(record): the cells in the order
\* of fieldnames
HeaderLine == CSV_HEADERS
CsvLine(record) == [i \in DOMAIN CSV_HEADERS |-> CsvCell(record[CSV_HEADERS[i]])]
CsvLines(recs) == [k \in DOMAIN recs |-> CsvLine(recs[k])]

File(lines) == [exists |-> TRUE, lines |-> lines]
\* an output file left by an earlier run
OldFile == File(<< HeaderLine, CsvLine(MakeRecord(EmptyDict, "Stara skola")) >>)

\* write_records_to_csv always opening the file with mode "w"
write_records_to_csv_truncating(file, recs) ==
    File(<< HeaderLine >> \o CsvLines(recs))

\* write_records_to_csv(records, append=True) on the file
write_records_to_csv(file, recs) ==
    IF file.exists
    THEN File(file.lines \o CsvLines(recs))
    ELSE File(<< HeaderLine >> \o CsvLines(recs))

\* `if records:` taken for every list
ExtractedAlways(recs) == TRUE

\* `if records:`
Extracted(recs) == recs # << >>

\* what main does, in order: query_power_bi(school) ("query", n = 1 when the
\* response is truthy), the return of parse_response ("parsed", n records),
\* write_records_to_csv ("write", n records), the fallback query ("fallback",
\* n = 1 when the response is truthy) and time.sleep ("sleep")
Event(what, school, n, recs) == [what |-> what, school |-> school, n |-> n, records |-> recs]

\* schools.json: the first schools of a list in which a school comes twice
SchoolList == << "Druha skola", "Test School", "Druha skola", "Test School" >>
SchoolLists == { SubSeq(SchoolList, 1, k) : k \in 0..MaxSchools }

\* the responses query_power_bi brings in a run, and the rows they carry: a
\* full row; a row whose name is null; an index above the table; a negative
\* index that raises
MainResponses ==
    { Resp("ok", "ok", "ok", "ok", "ok", "ok", SchemaDict, DictsFull),
      Broken(1, "empty"), Broken(2, "absent") }
MainRows ==
    { Row(TRUE, << IntV(0), IntV(0) >>, 0, 0),
      Row(TRUE, << IntV(0) >>, 0, 2),
      Row(TRUE, << IntV(1), IntV(0) >>, 0, 0),
      Row(TRUE, << IntV(-2), IntV(0) >>, 0, 0) }

MainInit ==
    /\ main_pc = "clear"
    /\ schools \in SchoolLists
    /\ idx = 0
    /\ successful = 0
    /\ failed = 0
    /\ output_csv \in {FileAbsent, OldFile}
    /\ main_response = "none"
    /\ main_records = << >>
    /\ events = << >>

\* the output file is cleared and the counters are set
ClearOutput ==
    /\ main_pc = "clear"
    /\ output_csv' = FileAbsent
    /\ successful' = 0
    /\ failed' = 0
    /\ main_pc' = (IF schools = << >> THEN "done" ELSE "query")
    /\ UNCHANGED <<schools, idx, main_response, main_records, events>>

\* the frame of parse_response(response, school, curriculums) at its entry
Enter(resp, school, rows) ==
    /\ response' = resp
    /\ school_name' = school
    /\ unread' = rows
    /\ pc' = "start"
    /\ exc' = "none"
    /\ records' = << >>
    /\ schema_map' = << >>
    /\ value_dicts' = DictsNone
    /\ round_idx' = 0
    /\ row_idx' = 0
    /\ previous_resolved' = EmptyDict
    /\ dm0' = NoRow
    /\ resolved' = EmptyDict
    /\ idx_pointer' = 0
    /\ logged' = << >>

decoder == <<response, school_name, unread, pc, exc, records, schema_map, value_dicts,
             round_idx, row_idx, previous_resolved, dm0, resolved, idx_pointer, logged>>

\* the next school is queried; a falsy response counts the school as failed,
\* a truthy one is handed to parse_response
Query ==
    /\ main_pc = "query"
    /\ idx < Len(schools)
    /\ idx' = idx + 1
    /\ \/ /\ main_response' = "none"
          /\ events' = Append(events, Event("query", idx + 1, 0, << >>))
          /\ failed' = failed + 1
          /\ main_pc' = "wait"
          /\ UNCHANGED decoder
       \/ /\ main_response' = "dict"
          /\ events' = Append(events, Event("query", idx + 1, 1, << >>))
          /\ \E resp \in MainResponses, rows \in 0..MaxRows :
                /\ (resp.DM0 = "ok") => rows >= 1
                /\ (resp.PH # "ok") => rows = 0
                /\ Enter(resp, schools[idx + 1], rows)
          /\ main_pc' = "parse"
          /\ UNCHANGED failed
    /\ UNCHANGED <<schools, successful, output_csv, main_records>>

\* parse_response has returned: its records are written, or the fallback
\* query is due
Handle ==
    /\ main_pc = "parse"
    /\ pc = "done"
    /\ main_records' = records
    /\ IF Extracted(records)
       THEN /\ output_csv' = write_records_to_csv(output_csv, records)
            /\ successful' = successful + 1
            /\ events' = events \o << Event("parsed", idx, Len(records), records),
                                      Event("write", idx, Len(records), << >>) >>
            /\ main_pc' = "wait"
       ELSE /\ events' = Append(events, Event("parsed", idx, Len(records), records))
            /\ main_pc' = "fallback"
            /\ UNCHANGED <<output_csv, successful>>
    /\ UNCHANGED <<schools, idx, failed, main_response>>
    /\ UNCHANGED decoder

\* query_power_bi(school, include_where=False): the response is saved for
\* inspection when it is truthy, and the school counts as failed
FallbackQuery ==
    /\ main_pc = "fallback"
    /\ \E got \in {0, 1} : events' = Append(events, Event("fallback", idx, got, << >>))
    /\ failed' = failed + 1
    /\ main_pc' = "wait"
    /\ UNCHANGED <<schools, idx, successful, output_csv, main_response, main_records>>
    /\ UNCHANGED decoder

\* the end of the loop body: a sleep unless this was the last school
Wait ==
    /\ main_pc = "wait"
    /\ IF idx < Len(schools)
       THEN /\ events' = Append(events, Event("sleep", idx, 0, << >>))
            /\ main_pc' = "query"
       ELSE /\ main_pc' = "done"
            /\ UNCHANGED events
    /\ UNCHANGED <<schools, idx, successful, failed, output_csv, main_response, main_records>>
    /\ UNCHANGED decoder

InitMain == DecoderIdle /\ QueryIdle /\ MainInit /\ RateIdle /\ TransportIdle /\ EnrichIdle

notMain == <<twice, queryVars, rateVars, transportVars, enrichVars>>

\* main, and parse_response running inside it
NextMain ==
    \/ ClearOutput /\ UNCHANGED <<vars, notMain>>
    \/ Query /\ UNCHANGED notMain
    \/ main_pc = "parse" /\ Navigate /\ UNCHANGED <<twice, others>>
    \/ main_pc = "parse" /\ NextGroup /\ UNCHANGED <<twice, others>>
    \/ main_pc = "parse" /\ \E row \in MainRows : DecodeRow(row) /\ UNCHANGED <<twice, others>>
    \/ main_pc = "parse" /\ LoopBack /\ UNCHANGED <<twice, others>>
    \/ main_pc = "parse" /\ Return /\ UNCHANGED <<twice, others>>
    \/ Handle /\ UNCHANGED notMain
    \/ FallbackQuery /\ UNCHANGED notMain
    \/ Wait /\ UNCHANGED notMain

SpecMain == InitMain /\ [][NextMain]_<<vars, others>>

----------------------------------------------------------------------------
(* The enrichment workflow *)

\* most rows of the input CSV
MaxInputRows == 3

\* a row of the input: the school and the programme
InputRow(school, curriculum) == [school_name |-> school, curriculum_name |-> curriculum]
InputRows == { InputRow(s, c) : s \in SchoolNames, c \in CurriculumNames }

\* the entry of a school in schools.json: none, a dict with website and
\* address, or something that is not a dict
ConfigEntry(kind, website, address) == [kind |-> kind, website |-> website, address |-> address]
ConfigEntries ==
    { ConfigEntry("dict", None, None),
      ConfigEntry("dict", StrV("https://skola.example"), StrV("Chodovicka 2250")),
      ConfigEntry("other", None, None) }

Enrichment(available, info, minutes, transfers, website, address, url, status) ==
    [public_transport_available |-> available,
     public_transport_info |-> info,
     public_transport_duration_minutes |-> minutes,
     public_transport_transfers |-> transfers,
     school_website |-> website,
     street_address |-> address,
     debug_idos_url |-> url,
     enrichment_status |-> status]

\* df.drop_duplicates(subset=["school_name"]) keeping every row
unique_schools_all(rows) == rows

\* df.drop_duplicates(subset=["school_name"]): the first row of each school
unique_schools(rows) ==
    LET first_of(n) == \A k \in 1..(n - 1) : rows[k].school_name # rows[n].school_name
        F[n \in 0..Len(rows)] ==
            IF n = 0 THEN << >>
            ELSE IF first_of(n) THEN Append(F[n - 1], rows[n]) ELSE F[n - 1]
    IN  F[Len(rows)]

\* enrich_record(row, transport_checker, schools_config): the enrichment, the
\* checker's cache afterwards and the call of check_transport it made, if any
enrich_record(row, store, entry, day, http) ==
    IF entry.kind # "dict"
    THEN [enrichment |-> Enrichment(None, None, None, None, None, None, None,
                                    "error: AttributeError"),
          cache |-> store, called |-> << >>]
    ELSE LET destination == IF Truthy(entry.address) THEN entry.address
                            ELSE StrV(row.school_name)
             out == check_transport(store, row.school_name, destination, day, http)
             transport == out.result
         IN  [enrichment |-> Enrichment(transport.available, transport.route_info,
                                        transport.duration_minutes, transport.transfers,
                                        entry.website, entry.address, transport.idos_url,
                                        "completed"),
              cache |-> out.cache,
              called |-> << Called("check_transport", row.school_name, destination,
                                   IF out.requested THEN http ELSE Page(None, None),
                                   out.result, out.requested) >>]

\* row.to_dict() updated with the enrichment; a school without one gets {},
\* and its enrichment columns, the status among them, stay empty
Joined(row, enrichments) ==
    [row |-> row,
     enriched |-> row.school_name \in DOMAIN enrichments,
     enrichment |-> IF row.school_name \in DOMAIN enrichments
                    THEN enrichments[row.school_name]
                    ELSE Enrichment(None, None, None, None, None, None, None, "")]

EnrichInit ==
    /\ enrich_pc = "enrich"
    /\ df \in SeqsUpTo(InputRows, MaxInputRows)
    /\ school_enrichments = EmptyDict
    /\ enriched_records = << >>
    /\ enrich_calls = << >>

\* one turn of the loop over unique_schools
EnrichSchool ==
    /\ enrich_pc = "enrich"
    /\ Len(enrich_calls) < Len(unique_schools(df))
    /\ LET row == unique_schools(df)[Len(enrich_calls) + 1]
       IN  /\ enrich_calls' = Append(enrich_calls, row.school_name)
           /\ \E entry \in ConfigEntries, http \in HttpOutcomes :
                 LET out == enrich_record(row, cache, entry, today, http)
                 IN  /\ school_enrichments' =
                           DictSet(school_enrichments, row.school_name, out.enrichment)
                     /\ cache' = out.cache
                     /\ history' = history \o out.called
    /\ UNCHANGED <<enrich_pc, df, enriched_records, today>>

\* the loop over unique_schools is exhausted; enriched_records = []
StartJoin ==
    /\ enrich_pc = "enrich"
    /\ Len(enrich_calls) = Len(unique_schools(df))
    /\ enrich_pc' = "join"
    /\ enriched_records' = << >>
    /\ UNCHANGED <<df, school_enrichments, enrich_calls, cache, today, history>>

\* one turn of the loop over df, or its end
JoinRow ==
    /\ enrich_pc = "join"
    /\ IF Len(enriched_records) < Len(df)
       THEN /\ enriched_records' =
                  Append(enriched_records,
                         Joined(df[Len(enriched_records) + 1], school_enrichments))
            /\ UNCHANGED enrich_pc
       ELSE /\ enrich_pc' = "done"
            /\ UNCHANGED enriched_records
    /\ UNCHANGED <<df, school_enrichments, enrich_calls, cache, today, history>>

InitEnrich == DecoderIdle /\ QueryIdle /\ MainIdle /\ RateIdle /\ TransportIdle /\ EnrichInit

notEnrich == <<vars, queryVars, mainVars, rateVars>>

NextEnrich ==
    \/ EnrichSchool /\ UNCHANGED notEnrich
    \/ StartJoin /\ UNCHANGED notEnrich
    \/ JoinRow /\ UNCHANGED notEnrich

SpecEnrich == InitEnrich /\ [][NextEnrich]_<<vars, others>>

----------------------------------------------------------------------------
(* Vocabulary of the properties *)

Cols == DOMAIN schema_map
ColName(i) == schema_map[i].name
ColNames == { ColName(i) : i \in Cols }

\* bit i of a mask, read off the remainder
MaskHas(mask, i) == (mask % Pow2(i + 1)) >= Pow2(i)

\* column i of the row has neither bit set
Consumes(row, i) == ~MaskHas(row.N, i) /\ ~MaskHas(row.R, i)
\* the values slot (0-based) column i is entitled to
SlotOf(row, i) == Cardinality({ k \in Cols : k < i /\ Consumes(row, k) })
HasSlot(row, i) == Consumes(row, i) /\ SlotOf(row, i) < Len(row.C)
RawOf(row, i) == row.C[SlotOf(row, i) + 1]

\* the loop over the columns got as far as column i
Reached(i) == \A j \in Cols : j < i => ColName(j) \in DOMAIN resolved

\* a state right after the loop body ran on a row with a values array
Decoded == pc = "decoded" /\ dm0.hasC
\* a state right after an exception left the loop body
Aborted == pc = "done" /\ dm0.hasC

Min(a, b) == IF a <= b THEN a ELSE b

\* a step that is one turn of the loop over the rows
RowTurn == pc = "rows" /\ row_idx' = row_idx + 1

\* the debug line of the row visited last
LastLine == logged[Len(logged)]
\* the rows visited so far of which the logger was told "what"
Lines(what) == { k \in DOMAIN logged : logged[k].what = what }

\* a curriculum name that is null or the empty string
Missing(v) == v = None \/ v = StrV("")
\* a curriculum name that is a non-empty string
NonEmptyName(v) == v.t = "str" /\ v.s # ""

----------------------------------------------------------------------------
(* C1: a column whose repeat bit is set (null bit clear) takes the value the
   column had in the immediately preceding decoded row of the same group,
   whether or not that row yielded a record. *)
C1_RepeatsPrecedingRow ==
    [][ (pc = "rows" /\ pc' = "decoded" /\ dm0'.hasC /\ resolved # EmptyDict)
        => \A i \in Cols :
              (MaskHas(dm0'.R, i) /\ ~MaskHas(dm0'.N, i))
              => resolved'[ColName(i)] = DictGet(resolved, ColName(i)) ]_vars

(* C2: the fields named by the example scenario, in the order curriculum_code,
   curriculum_name, curriculum_detail, round1 capacity, applications, accepted,
   min_score, avg_score, round2 capacity, applications, accepted, min_score,
   avg_score. *)
ExampleFields(rec) ==
    << rec.curriculum_code, rec.curriculum_name, rec.curriculum_detail,
       rec.round1_capacity, rec.round1_applications, rec.round1_accepted,
       rec.round1_min_score, rec.round1_avg_score,
       rec.round2_capacity, rec.round2_applications, rec.round2_accepted,
       rec.round2_min_score, rec.round2_avg_score >>

ExampleReturned == pc = "done" /\ response.schema = Schema15

(* C2 as stated: the example payload yields exactly one record with round 1
   fields 50, 100, 40, 75, 85 and round 2 fields 30, 50, 25, 70, 80. *)
C2_ExampleAsStated ==
    ExampleReturned =>
        /\ Len(records) = 1
        /\ ExampleFields(records[1]) =
             << StrV("2312B"), StrV("Elektrikar"), StrV("Silnoproud"),
                IntV(50), IntV(100), IntV(40), IntV(75), IntV(85),
                IntV(30), IntV(50), IntV(25), IntV(70), IntV(80) >>

(* C2 amended: the example payload yields exactly one record with round 1
   fields 100, 40, 75, 85, 0 (columns G4..G8) and round 2 fields 50, 25, 70, 80
   and null (columns G10..G14; the 14 values leave G14 without a slot). *)
C2_ExampleByColumn ==
    ExampleReturned =>
        /\ Len(records) = 1
        /\ ExampleFields(records[1]) =
             << StrV("2312B"), StrV("Elektrikar"), StrV("Silnoproud"),
                IntV(100), IntV(40), IntV(75), IntV(85), IntV(0),
                IntV(50), IntV(25), IntV(70), IntV(80), None >>

C2_Witness ==
    /\ ExampleReturned
    /\ Len(records) = 1
    /\ records[1].round1_capacity = IntV(100)
    /\ exc = "none"

(* C3: null priority: a column with both the null bit and the repeat bit set
   resolves to null, also when the previous row holds a value for it. *)
C3_NullPriority ==
    Decoded =>
        \A i \in Cols :
            (MaskHas(dm0.N, i) /\ MaskHas(dm0.R, i)) => resolved[ColName(i)] = None

C3_Witness ==
    /\ Decoded
    /\ \E i \in Cols :
          /\ MaskHas(dm0.N, i) /\ MaskHas(dm0.R, i)
          /\ DictGet(previous_resolved, ColName(i)) # None
          /\ resolved[ColName(i)] = None

(* C4: group isolation: the previous-row tracker is empty at the first row of
   every group, within a group it only ever becomes the row just resolved, and
   a record made from the first row of a group has null in every repeated
   column. *)
C4_GroupIsolation ==
    [][ /\ (pc' = "rows" /\ row_idx' = 0) => previous_resolved' = EmptyDict
        /\ (round_idx' = round_idx /\ previous_resolved' # previous_resolved)
              => (pc' = "decoded" /\ previous_resolved' = resolved')
        /\ (pc = "rows" /\ row_idx = 0 /\ Len(records') > Len(records))
              => \A i \in Cols :
                    (MaskHas(dm0'.R, i) /\ ~MaskHas(dm0'.N, i))
                    => resolved'[ColName(i)] = None ]_vars

C4_Witness ==
    /\ Decoded
    /\ round_idx = 2 /\ row_idx = 1
    /\ MaskHas(dm0.R, 0) /\ ~MaskHas(dm0.N, 0)
    /\ Len(records) = 2
    /\ records[1].curriculum_code # None
    /\ records[2].curriculum_code = None

(* C5: repeat with no prior row: on the first row of a group a column whose
   repeat bit is set (null bit clear) resolves to null and takes no values
   slot: the slots go, in order, to the columns with neither bit set. *)
C5_RepeatOnFirstRow ==
    (Decoded /\ row_idx = 1) =>
        /\ \A i \in Cols :
              (MaskHas(dm0.R, i) /\ ~MaskHas(dm0.N, i)) => resolved[ColName(i)] = None
        /\ (\E i \in Cols : MaskHas(dm0.R, i) /\ ~MaskHas(dm0.N, i))
              => /\ idx_pointer =
                      Min(Len(dm0.C), Cardinality({ k \in Cols : Consumes(dm0, k) }))
                 /\ \A k \in Cols :
                       (HasSlot(dm0, k) /\ schema_map[k].dict = "")
                       => resolved[ColName(k)] = RawOf(dm0, k)

C5_Witness ==
    /\ Decoded /\ row_idx = 1
    /\ MaskHas(dm0.R, 0) /\ ~MaskHas(dm0.N, 0)
    /\ Consumes(dm0, 1)
    /\ Len(dm0.C) = 1
    /\ idx_pointer = 1
    /\ resolved["G0"] = None
    /\ resolved["G1"] # None

\* what the dictionary rule of the specification gives for a raw value
DictRule(dict_name, raw) ==
    IF /\ dict_name \in DOMAIN value_dicts
       /\ raw.t = "int"
       /\ 0 <= raw.i
       /\ raw.i < Len(value_dicts[dict_name])
    THEN value_dicts[dict_name][raw.i + 1]
    ELSE None

(* C6: a column with a dictionary reference that consumes a raw value resolves
   to table[raw] when raw is an integer with 0 <= raw < length(table) and to
   null in every other case. *)
C6_DictionaryRule ==
    (Decoded \/ Aborted) =>
        \A i \in Cols :
            (HasSlot(dm0, i) /\ schema_map[i].dict # "")
            => /\ ColName(i) \in DOMAIN resolved
               /\ resolved[ColName(i)] = DictRule(schema_map[i].dict, RawOf(dm0, i))

\* column i consumes an integer index at or above the length of its table
OverRange(i) ==
    /\ HasSlot(dm0, i)
    /\ schema_map[i].dict \in DOMAIN value_dicts
    /\ RawOf(dm0, i).t = "int"
    /\ RawOf(dm0, i).i >= Len(value_dicts[schema_map[i].dict])

(* C7: dictionary bounds: a categorical cell whose index is >= the length of
   its table resolves to null without raising, and the loop goes on to the
   columns after it. *)
C7_DictionaryBounds ==
    (Decoded \/ Aborted) =>
        \A i \in Cols :
            (OverRange(i) /\ Reached(i))
            => /\ ColName(i) \in DOMAIN resolved
               /\ resolved[ColName(i)] = None
               /\ Reached(i + 1)
               /\ (exc = "none" => DOMAIN resolved = ColNames)

C7_Witness ==
    /\ Decoded
    /\ exc = "none"
    /\ OverRange(0)
    /\ resolved["G0"] = None
    /\ resolved["G1"] # None

(* C8: no malformed cell aborts decoding: once the schema is found,
   parse_response returns only after every row of the response has been
   visited, no exception having left the loops, and every visited row with a
   values array and a non-empty curriculum name adds its record. *)
C8_NeverAborts ==
    [][ /\ (pc' = "done" /\ schema_map' # << >>) => (exc' = "none" /\ unread' = 0)
        /\ (pc = "rows" /\ pc' # "rows" /\ dm0'.hasC)
              => /\ pc' = "decoded"
                 /\ Truthy(Obor(resolved'))
                       => /\ Len(records') = Len(records) + 1
                          /\ records'[Len(records')].curriculum_name = Obor(resolved') ]_vars

\* a structural section on the way to the schema is missing or empty
Unstructured(r) ==
    \/ r.results # "ok"
    \/ r.DS # "ok"
    \/ r.PH # "ok"
    \/ r.DM0 # "ok"
    \/ r.S # "ok"

(* C9: missing structural section: when results is absent or empty, DS, PH,
   the first group's DM0 or the first row's S is absent or empty,
   parse_response returns the empty list; an exception on the way is caught. *)
C9_MissingSection ==
    (Unstructured(response) /\ pc # "start") => (pc = "done" /\ records = << >>)

C9_Witness ==
    /\ pc = "done"
    /\ response.results = "empty"
    /\ exc = "IndexError"
    /\ records = << >>

\* the ValueDicts section is absent or empty
NoDicts(r) == r.VD \in {"absent", "empty"}

(* C10 as stated: with ValueDicts absent or empty parse_response returns the
   empty sequence whatever the schema and the rows are. *)
C10_NoDictsNoRecords ==
    (NoDicts(response) /\ pc = "done") => records = << >>

(* C10 amended: with ValueDicts absent or empty no exception leaves the
   decoder, every column with a dictionary reference resolves to null, and
   the result is empty whenever the curriculum-name column G1 has a
   dictionary reference. *)
C10_NoDictsNullCells ==
    NoDicts(response) =>
        /\ exc = "none"
        /\ \A i \in Cols :
              (schema_map[i].dict # "" /\ ColName(i) \in DOMAIN resolved)
              => resolved[ColName(i)] = None
        /\ (\E i \in Cols : ColName(i) = "G1" /\ schema_map[i].dict # "")
              => records = << >>

C10_Witness ==
    /\ NoDicts(response)
    /\ response.schema = SchemaDict
    /\ Decoded
    /\ dm0 = Row(TRUE, << IntV(0), IntV(0) >>, 0, 0)
    /\ resolved["G1"] = None
    /\ records = << >>

(* C11: a row without a values array (no C key) yields no record and is not
   resolved: its masks are not read, the resolved row and the previous-row
   tracker stay as they were.  A row whose values array is present but empty
   is resolved column by column from its masks alone (null bit: null, repeat
   bit: the tracker's value, neither: null) and yields a record when its
   curriculum name G1 resolves to a non-empty value. *)
C11_NoValuesArray ==
    [][ RowTurn =>
          /\ ~dm0'.hasC
                => /\ pc' = "decoded"
                   /\ records' = records
                   /\ resolved' = resolved
                   /\ previous_resolved' = previous_resolved
                   /\ LastLine' = LogLine(round_idx, row_idx, "no_c")
          /\ (dm0'.hasC /\ dm0'.C = << >>)
                => /\ pc' = "decoded"
                   /\ DOMAIN resolved' = ColNames
                   /\ \A i \in Cols :
                         resolved'[ColName(i)] =
                            IF MaskHas(dm0'.N, i) THEN None
                            ELSE IF MaskHas(dm0'.R, i)
                                 THEN DictGet(previous_resolved, ColName(i))
                                 ELSE None
                   /\ NonEmptyName(DictGet(resolved', "G1"))
                         => /\ Len(records') = Len(records) + 1
                            /\ records'[Len(records')].curriculum_name = resolved'["G1"] ]_vars

C11_Witness ==
    /\ Decoded
    /\ dm0.C = << >>
    /\ MaskHas(dm0.R, 1) /\ ~MaskHas(dm0.N, 1)
    /\ row_idx = 2
    /\ Len(records) = 2
    /\ records[2].curriculum_name = StrV("Elektrikar")
    /\ LastLine = LogLine(1, 1, "record")

(* C12: required-field drop: a resolved row whose curriculum name is null or
   the empty string yields no record (the logger is told so and the records
   stay one per "record" line), and every record has a curriculum name that
   is neither null nor the empty string. *)
C12_RequiredField ==
    /\ \A k \in DOMAIN records : ~Missing(records[k].curriculum_name)
    /\ Len(records) = Cardinality(Lines("record"))
    /\ (Decoded /\ Missing(Obor(resolved)))
          => LastLine = LogLine(round_idx, row_idx - 1, "no_obor")

C12_Witness ==
    /\ Decoded
    /\ Obor(resolved) = StrV("")
    /\ resolved["G0"] = StrV("2312B")
    /\ LastLine.what = "no_obor"
    /\ records = << >>

(* C13: dropping a row for a missing curriculum name skips only that row: no
   exception is left behind, the loops stay where they are, the records stay
   as they are, and every row visited after a dropped row, in this group or a
   later one, that has a values array and resolves a non-empty curriculum
   name adds its record. *)
C13_DropSkipsOneRow ==
    [][ (RowTurn /\ dm0'.hasC) =>
          /\ (DOMAIN resolved' = ColNames /\ Missing(Obor(resolved')))
                => /\ pc' = "decoded"
                   /\ exc' = exc
                   /\ records' = records
                   /\ round_idx' = round_idx
                   /\ unread' = unread - 1
          /\ (Lines("no_obor") # {} /\ NonEmptyName(Obor(resolved')))
                => /\ pc' = "decoded"
                   /\ records' = Append(records, MakeRecord(resolved', school_name))
                   /\ LastLine' = LogLine(round_idx, row_idx, "record") ]_vars

C13_Witness ==
    /\ Decoded
    /\ logged = << LogLine(1, 0, "no_obor"), LogLine(2, 0, "record") >>
    /\ Len(records) = 1
    /\ records[1].curriculum_name = Obor(resolved)

(* C15: schema completeness: once the schema is found, the schema map has one
   entry per descriptor, keyed 0..n-1, entry k carrying the name, dictionary
   reference and kind of the k-th descriptor; the columns are visited in
   ascending position: the columns resolved when an exception leaves the loop
   are the first ones, and the values slots go to the columns in ascending
   position. *)
C15_SchemaComplete ==
    /\ (~Unstructured(response) /\ pc # "start") => schema_map # << >>
    /\ schema_map # << >>
          => LET S == response.schema
             IN  /\ Cols = 0..(Len(S) - 1)
                 /\ \A k \in Cols :
                       schema_map[k] =
                          [name |-> S[k + 1].N, dict |-> S[k + 1].DN, type |-> S[k + 1].T]
    /\ (Decoded \/ Aborted)
          => /\ \E n \in 0..Cardinality(Cols) :
                   DOMAIN resolved = { ColName(i) : i \in { c \in Cols : c < n } }
             /\ \A i \in Cols :
                   (HasSlot(dm0, i) /\ schema_map[i].dict = "" /\ Reached(i + 1))
                   => resolved[ColName(i)] = RawOf(dm0, i)

C15_Witness ==
    /\ pc = "done"
    /\ response.schema = Schema15
    /\ Cardinality(Cols) = 15
    /\ schema_map[0] = [name |-> "G0", dict |-> "D0", type |-> 1]
    /\ schema_map[14] = [name |-> "G14", dict |-> "", type |-> 4]
    /\ DOMAIN resolved = ColNames
    /\ Len(records) = 1

\* a repeated call has returned
Repeated == call = 2 /\ pc = "done"

\* a row comes before another in (group, row) order
Before(a, b) == a.group < b.group \/ (a.group = b.group /\ a.row < b.row)

\* the record appended last, and a state right after a row yielded it
LastRecord == records[Len(records)]
Recorded == Decoded /\ LastLine.what = "record"

\* the keys of CSV_HEADERS
CsvKeys == { CSV_HEADERS[i] : i \in DOMAIN CSV_HEADERS }

(* C14: idempotence: a second call of parse_response with the same response
   and school name starts with nothing left over from the first call (no
   records, no schema map, no previous row) and returns the records of the
   first call, equal and in the same order. *)
C14_Idempotent ==
    /\ (call = 2 /\ pc = "start")
          => /\ records = << >>
             /\ schema_map = << >>
             /\ previous_resolved = EmptyDict
    /\ Repeated
          => /\ records = first.records
             /\ exc = first.exc

C14_Witness ==
    /\ Repeated
    /\ Len(payload) = 2
    /\ Len(records) = 2
    /\ records[1] # records[2]
    /\ records = first.records

(* C16: output ordering: rows are visited in (group, row) order, each visited
   row adds at most one record, a record is only ever added at the end of the
   list and is the record of the row being visited, so the records stand in
   the (group, row) order of their rows. *)
C16_OutputOrder ==
    [][ /\ Len(logged') > Len(logged)
              => /\ RowTurn
                 /\ logged' = Append(logged, LogLine(round_idx, row_idx, LastLine'.what))
                 /\ \A j \in DOMAIN logged : Before(logged[j], LastLine')
        /\ records' # records
              => /\ RowTurn
                 /\ records' = Append(records, MakeRecord(resolved', school_name))
                 /\ logged' = Append(logged, LogLine(round_idx, row_idx, "record"))
        /\ Len(records') = Cardinality(Lines("record")') ]_vars

C16_Witness ==
    /\ Decoded
    /\ logged = << LogLine(1, 0, "record"), LogLine(2, 0, "record") >>
    /\ Len(records) = 2
    /\ records[1].curriculum_code = StrV("2312B")
    /\ records[2].curriculum_code = None
    /\ resolved["G0"] = None

(* C17: every record has exactly the 14 keys of CSV_HEADERS and its
   school_name is the school_name argument of the call. *)
C17_FixedKeys ==
    \A k \in DOMAIN records :
        /\ DOMAIN records[k] = CsvKeys
        /\ Cardinality(DOMAIN records[k]) = 14
        /\ records[k].school_name = StrV(school_name)

C17_Witness ==
    /\ pc = "done"
    /\ school_name = "Druha skola"
    /\ Len(records) = 2
    /\ records[1] # records[2]
    /\ \A k \in DOMAIN records : records[k].school_name = StrV("Druha skola")

(* C18: pass-through without coercion: a column without a dictionary reference
   that consumes a values slot resolves to the raw value unchanged, and in a
   record the curriculum code, the curriculum detail and the ten round fields
   equal the resolved values of their columns, null included. *)
C18_PassThrough ==
    /\ Decoded
          => \A i \in Cols :
                (HasSlot(dm0, i) /\ schema_map[i].dict = "")
                => resolved[ColName(i)] = RawOf(dm0, i)
    /\ Recorded
          => /\ LastRecord.curriculum_code = DictGet(resolved, "G0")
             /\ LastRecord.curriculum_detail = DictGet(resolved, "G2")
             /\ LastRecord.round1_capacity = DictGet(resolved, "G4")
             /\ LastRecord.round1_applications = DictGet(resolved, "G5")
             /\ LastRecord.round1_accepted = DictGet(resolved, "G6")
             /\ LastRecord.round1_min_score = DictGet(resolved, "G7")
             /\ LastRecord.round1_avg_score = DictGet(resolved, "G8")
             /\ LastRecord.round2_capacity = DictGet(resolved, "G10")
             /\ LastRecord.round2_applications = DictGet(resolved, "G11")
             /\ LastRecord.round2_accepted = DictGet(resolved, "G12")
             /\ LastRecord.round2_min_score = DictGet(resolved, "G13")
             /\ LastRecord.round2_avg_score = DictGet(resolved, "G14")

C18_Witness ==
    /\ Recorded
    /\ dm0 = WideRowNulls
    /\ Len(records) = 2
    /\ records[1].round1_applications = FloatV(125)
    /\ records[1].round1_accepted = IntV(-1)
    /\ records[2].round1_capacity = None
    /\ records[2].round1_applications = IntV(12)

\* the first three columns carry the short names G0, G1, G2 in this order
NamedInOrder ==
    \A i \in Cols : i < 3 => ColName(i) = << "G0", "G1", "G2" >>[i + 1]

(* C19 as stated: whatever the short names of the columns, a record is made
   exactly when the column at position 1 resolves to a non-empty value, and
   its curriculum_code, curriculum_name and curriculum_detail are the
   resolved values of positions 0, 1 and 2. *)
C19_FieldsByPosition ==
    /\ Decoded => (LastLine.what = "record" <=> Truthy(resolved[ColName(1)]))
    /\ Recorded
          => /\ LastRecord.curriculum_code = resolved[ColName(0)]
             /\ LastRecord.curriculum_name = resolved[ColName(1)]
             /\ 2 \in Cols => LastRecord.curriculum_detail = resolved[ColName(2)]

(* C19 amended: the fields are taken by short name: a record is made exactly
   when the column named G1 resolves to a non-empty value, its
   curriculum_code, curriculum_name and curriculum_detail are the resolved
   values of the columns named G0, G1 and G2 (null when the schema has no
   such column); these are positions 0, 1 and 2 when the schema names its
   first columns G0, G1, G2 in this order. *)
C19_FieldsByName ==
    /\ Decoded => (LastLine.what = "record" <=> Truthy(DictGet(resolved, "G1")))
    /\ Recorded
          => /\ LastRecord.curriculum_code = DictGet(resolved, "G0")
             /\ LastRecord.curriculum_name = DictGet(resolved, "G1")
             /\ LastRecord.curriculum_detail = DictGet(resolved, "G2")
             /\ NamedInOrder
                   => /\ LastRecord.curriculum_code = resolved[ColName(0)]
                      /\ LastRecord.curriculum_name = resolved[ColName(1)]
                      /\ 2 \in Cols => LastRecord.curriculum_detail = resolved[ColName(2)]

C19_Witness ==
    /\ Recorded
    /\ response.schema = SchemaRenamed
    /\ dm0 = WideRowFull
    /\ LastRecord.curriculum_name = StrV("Elektrikar")
    /\ resolved[ColName(0)] = StrV("Elektrikar")
    /\ LastRecord.curriculum_code = StrV("2312B")
    /\ resolved[ColName(1)] = StrV("2312B")

(* C20: values-slot consumption: a column with its null or repeat bit set takes
   no slot; the j-th column with neither bit set resolves from values[j] when
   j < length(values) and to null otherwise; the slots consumed are
   min(length(values), columns with neither bit set); a row is never failed
   for having too few values: only a dictionary lookup that raises fails it. *)
C20_SlotConsumption ==
    /\ Decoded
          => /\ idx_pointer =
                   Min(Len(dm0.C), Cardinality({ k \in Cols : Consumes(dm0, k) }))
             /\ \A i \in Cols :
                   /\ MaskHas(dm0.N, i) => resolved[ColName(i)] = None
                   /\ (Consumes(dm0, i) /\ ~HasSlot(dm0, i)) => resolved[ColName(i)] = None
                   /\ HasSlot(dm0, i)
                         => resolved[ColName(i)] =
                               IF schema_map[i].dict = "" THEN RawOf(dm0, i)
                               ELSE LookupDict(schema_map[i].dict, RawOf(dm0, i),
                                               value_dicts).val
    /\ Aborted
          => \E i \in Cols :
                /\ HasSlot(dm0, i)
                /\ schema_map[i].dict # ""
                /\ LookupDict(schema_map[i].dict, RawOf(dm0, i), value_dicts).raised

C20_Witness ==
    /\ Decoded
    /\ dm0.R = 0 /\ dm0.N = 0
    /\ Len(dm0.C) = 1
    /\ Cardinality(Cols) = 2
    /\ idx_pointer = 1
    /\ resolved["G0"] = StrV("2312B")
    /\ resolved["G1"] = None

(* C21: the Where list of build_query has exactly one condition, the school
   filter, when include_where is true and no curriculums are given (None or
   an empty list); exactly two, the school filter and the curriculum filter,
   when include_where is true and the list is not empty; and none when
   include_where is false, whatever the list. *)
C21_WhereConditions ==
    query_pc = "done" =>
        IF ~include_where THEN where_conditions = << >>
        ELSE /\ Len(where_conditions) = (IF curriculums.list = << >> THEN 1 ELSE 2)
             /\ where_conditions[1] =
                   Condition("111", "a03Name", << << Literal(query_school) >> >>)
             /\ curriculums.list # << >>
                   => /\ where_conditions[2].property = "obory"
                      /\ Len(where_conditions[2].values) = Len(curriculums.list)

C21_Witness ==
    /\ query_pc = "done"
    /\ ~include_where
    /\ curriculums.list = << "Elektrikar", "Gymnazium" >>
    /\ Len(curriculum_conditions) = 2
    /\ where_conditions = << >>

(* C24: calculate_acceptance_rate returns None, and divides nothing by zero,
   whenever accepted is None, applications is None or applications is 0
   (accepted = 0 with applications = 0 included); for every other input it
   returns accepted / applications * 100 rounded to two decimals, i.e. the
   number of hundredths nearest to the exact quotient. *)
C24_AcceptanceRate ==
    rate # NotCalled =>
        /\ rate # ZeroDivisionError
        /\ IF accepted = None \/ applications = None \/ applications = IntV(0)
           THEN rate = None
           ELSE /\ rate.t = "rate"
                /\ 2 * (rate.i * applications.i - accepted.i * 10000) <= applications.i
                /\ 2 * (accepted.i * 10000 - rate.i * applications.i) <= applications.i

C24_Witness ==
    /\ accepted = IntV(0) /\ applications = IntV(0) /\ rate = None

\* the calls of check_transport in the history
Checks == { n \in 1..Len(history) : history[n].op = "check_transport" }
\* call m is a later call with the arguments of call n
Again(n, m) ==
    /\ n < m
    /\ history[m].school = history[n].school
    /\ history[m].destination = history[n].destination

(* C22: after check_transport(school_name, destination) has returned once,
   every later call on the same checker with the same two arguments returns an
   equal result from the cache without another HTTP request, whatever the
   outcome of the first call was. *)
C22_CachedWhateverOutcome ==
    \A n \in Checks, m \in Checks :
        Again(n, m) => /\ history[m].result = history[n].result
                       /\ ~history[m].requested

(* C23: check_transport never raises: when the request fails with a
   RequestException the result has available = None, route_info = "Lookup
   failed" and data_source = "lookup_failed"; when any other exception occurs
   it has available, duration_minutes and transfers = None and data_source =
   "error". *)
C23_FailureResults ==
    \A n \in Checks :
        LET c == history[n]
        IN  /\ DOMAIN c.result = DOMAIN TransportResult(None, None, None, None, None, None, "")
            /\ (c.requested /\ c.http = RequestException)
                 => /\ c.result.available = None
                    /\ c.result.route_info = StrV("Lookup failed")
                    /\ c.result.data_source = "lookup_failed"
            /\ (c.requested /\ c.http = OtherException)
                 => /\ c.result.available = None
                    /\ c.result.duration_minutes = None
                    /\ c.result.transfers = None
                    /\ c.result.data_source = "error"

C23_Witness ==
    /\ Len(history) = 2
    /\ history[1].op = "check_transport" /\ history[1].http = RequestException
    /\ history[1].result.data_source = "lookup_failed"
    /\ history[2].op = "check_transport" /\ history[2].http = OtherException
    /\ history[2].result.data_source = "error"

(* C25: build_idos_url uses the next Monday: for every weekday of today the
   offset days_until_monday lies in 1..7, the date is a Monday strictly after
   today and the nearest such Monday (7 days ahead on a Monday); a None or
   empty destination returns None instead of a URL. *)
C25_NextMonday ==
    \A n \in 1..Len(history) :
        history[n].op = "build_idos_url" =>
            LET url == history[n].result
            IN  IF history[n].destination \in {None, StrV("")}
                THEN url = None
                ELSE /\ url.t = "url"
                     /\ url.i - today \in 1..7
                     /\ weekday(url.i) = 0
                     /\ \A day \in (today + 1)..(url.i - 1) : weekday(day) # 0
                     /\ weekday(today) = 0 => url.i = today + 7

C25_Witness ==
    /\ weekday(today) = 0
    /\ Len(history) = 2
    /\ history[1].op = "build_idos_url" /\ history[1].destination = None
    /\ history[1].result = None
    /\ history[2].op = "build_idos_url" /\ history[2].result = Url(today + 7, "Chodovicka 2250")

\* the events of one kind, by position
EventsOf(what) == { n \in DOMAIN events : events[n].what = what }
\* the calls of query_power_bi
Requests == EventsOf("query") \cup EventsOf("fallback")
\* schools whose loop body has run to its end
Processed == IF main_pc \in {"parse", "fallback"} THEN idx - 1 ELSE idx
\* school k's first response was truthy and decoded to at least one record
Succeeded(k) ==
    /\ \E n \in EventsOf("query") : events[n].school = k /\ events[n].n = 1
    /\ \E n \in EventsOf("parsed") : events[n].school = k /\ events[n].n >= 1

(* C26: any two consecutive calls of query_power_bi in a run, the fallback
   re-query of a school included, are separated by a sleep of request_delay,
   and no sleep follows the last school. *)
C26_DelayBetweenRequests ==
    /\ \A n \in Requests, m \in Requests :
          n < m => \E k \in EventsOf("sleep") : n < k /\ k < m
    /\ \A k \in EventsOf("sleep") : events[k].school < Len(schools)

\* the lines of the records in the parsed events from position n on that
\* were written
RECURSIVE WrittenFrom(_)
WrittenFrom(n) ==
    IF n > Len(events) THEN << >>
    ELSE (IF events[n].what = "parsed" /\ events[n].n >= 1
          THEN CsvLines(events[n].records) ELSE << >>) \o WrittenFrom(n + 1)

(* C27: main deletes an existing output file first, then appends the records
   of each school whose response decodes to at least one record, only after
   that response has been fully decoded; at every point of the run the file,
   if it exists, is one header row followed by the records of the successful
   schools processed so far, in school-list order and decoder order. *)
C27_IncrementalCsv ==
    main_pc # "clear" =>
        /\ output_csv.exists <=> EventsOf("write") # {}
        /\ output_csv.exists => output_csv.lines = << HeaderLine >> \o WrittenFrom(1)
        /\ main_pc = "parse" => \A n \in EventsOf("parsed") : events[n].school < idx

C27_Witness ==
    /\ main_pc = "done"
    /\ schools = << "Druha skola", "Test School" >>
    /\ Len(output_csv.lines) = 4
    /\ output_csv.lines[1] = HeaderLine
    /\ output_csv.lines[2][1] = "Druha skola"
    /\ output_csv.lines[3][1] = "Druha skola"
    /\ output_csv.lines[3][3] # output_csv.lines[2][3]
    /\ output_csv.lines[4][1] = "Test School"

\* the fallback query is issued exactly when the first response decoded to
\* zero records, at most once per school
FallbackWhenEmpty ==
    /\ \A n \in EventsOf("fallback") :
          /\ n > 1
          /\ events[n - 1] = Event("parsed", events[n].school, 0, << >>)
          /\ \A m \in EventsOf("fallback") : events[m].school = events[n].school => m = n
    /\ \A n \in EventsOf("parsed") :
          (events[n].n = 0 /\ (events[n].school <= Processed))
          => /\ n < Len(events)
             /\ events[n + 1].what = "fallback"
             /\ events[n + 1].school = events[n].school

(* C28 as stated: the fallback query is issued exactly when the first query
   returned a response that decoded to zero records, at most once per school,
   and the response of the fallback query is passed to parse_response. *)
C28_FallbackDecoded ==
    /\ FallbackWhenEmpty
    /\ \A n \in EventsOf("fallback") :
          (events[n].n = 1 /\ events[n].school <= Processed)
          => /\ n < Len(events)
             /\ events[n + 1].what = "parsed"
             /\ events[n + 1].school = events[n].school

(* C28 amended: the fallback query is issued exactly when the first query
   returned a response that decoded to zero records, at most once per school;
   its response is only saved for inspection and never passed to
   parse_response: each school is parsed at most once, and the records main
   holds after the fallback are still the empty list of the first response. *)
C28_FallbackSavedOnly ==
    /\ FallbackWhenEmpty
    /\ \A n \in EventsOf("parsed"), m \in EventsOf("parsed") :
          events[m].school = events[n].school => m = n
    /\ \A n \in EventsOf("fallback") :
          /\ n < Len(events) => events[n + 1].what \in {"sleep"}
          /\ n = Len(events) => main_records = << >> /\ pc = "done" /\ records = << >>

C28_Witness ==
    /\ main_pc = "done"
    /\ Len(schools) = 2
    /\ \E n \in EventsOf("fallback") : events[n].school = 1 /\ events[n].n = 1
    /\ \E n \in EventsOf("fallback") : events[n].school = 2 /\ events[n].n = 0
    /\ Cardinality(EventsOf("parsed")) = 2
    /\ ~output_csv.exists

(* C29: after every iteration of the school loop successful + failed is the
   number of schools processed so far; a school counts as successful exactly
   when its first response was truthy and decoded to at least one record,
   which was then passed to write_records_to_csv, and as failed otherwise,
   whatever the fallback query brought. *)
C29_Bookkeeping ==
    main_pc # "clear" =>
        /\ successful + failed = Processed
        /\ successful = Cardinality({ k \in 1..Processed : Succeeded(k) })
        /\ failed = Cardinality({ k \in 1..Processed : ~Succeeded(k) })
        /\ \A n \in EventsOf("parsed") :
              (events[n].n >= 1 /\ events[n].school <= Processed)
              => /\ n < Len(events)
                 /\ events[n + 1] = Event("write", events[n].school, events[n].n, << >>)
        /\ \A n \in EventsOf("write") :
              /\ n > 1
              /\ events[n - 1].what = "parsed"
              /\ events[n - 1].school = events[n].school
              /\ events[n - 1].n >= 1

C29_Witness ==
    /\ main_pc = "done"
    /\ Len(schools) = 2
    /\ successful = 1
    /\ failed = 1
    /\ \E n \in EventsOf("fallback") : events[n].school = 1 /\ events[n].n = 1
    /\ Succeeded(2)

\* the school names of the input, and how often enrich_record was called
\* for one
InputSchools == { df[n].school_name : n \in DOMAIN df }
CallsFor(school) == Cardinality({ n \in DOMAIN enrich_calls : enrich_calls[n] = school })
LookupsFor(school) ==
    Cardinality({ n \in DOMAIN history : history[n].school = school /\ history[n].requested })

(* C30: the enrichment main enriches each distinct school_name exactly once
   (one enrich_record call, at most one transport lookup per school), then
   every input row receives the enrichment computed for its own school_name;
   the output rows are as many as the input rows and in their order, and every
   enrichment returned by enrich_record has enrichment_status "completed" or
   "error: ...", never "pending". *)
C30_EnrichmentJoin ==
    /\ \A school \in InputSchools :
          /\ CallsFor(school) <= 1
          /\ LookupsFor(school) <= CallsFor(school)
          /\ enrich_pc # "enrich" => CallsFor(school) = 1
    /\ \A n \in DOMAIN enrich_calls : enrich_calls[n] \in InputSchools
    /\ \A school \in DOMAIN school_enrichments :
          school_enrichments[school].enrichment_status \in {"completed", "error: AttributeError"}
    /\ Len(enriched_records) <= Len(df)
    /\ enrich_pc = "done" => Len(enriched_records) = Len(df)
    /\ \A n \in DOMAIN enriched_records :
          /\ enriched_records[n].row = df[n]
          /\ enriched_records[n].enriched
          /\ enriched_records[n].enrichment = school_enrichments[df[n].school_name]

C30_Witness ==
    /\ enrich_pc = "done"
    /\ Len(df) = 3
    /\ df[1].school_name = "Druha skola"
    /\ df[2].school_name = "Test School"
    /\ df[3].school_name = "Druha skola"
    /\ enrich_calls = << "Druha skola", "Test School" >>
    /\ enriched_records[1].enrichment.enrichment_status = "completed"
    /\ enriched_records[2].enrichment.enrichment_status = "error: AttributeError"
    /\ enriched_records[3].enrichment = enriched_records[1].enrichment
    /\ enriched_records[3].row # enriched_records[1].row

====
